---------------------------- MODULE Spec2Model ----------------------------
(***************************************************************************)
(* Model of preprocessing.py: data_qc (the single-sounding transform:      *)
(* record filter, numeric cast and null scan, dewpoint, timestamp          *)
(* reconstruction) and get_sonde_anl_data (the per-station driver loop).   *)
(*                                                                         *)
(* A data frame is a sequence of rows [idx, rec]: idx is the pandas index  *)
(* label, rec the cells by column name.  Of the 41 raw columns a raw       *)
(* record carries the 15 the code reads (SondeN, ST, GF, N and the eleven  *)
(* columns that survive drop_columns); the other 26 are dropped at line    *)
(* 179 without ever being read.                                            *)
(*                                                                         *)
(* Cells.  A numeric-column cell is [kind, val]: "num" (text that          *)
(* pd.to_numeric parses; val is the number), "junk" (text it cannot        *)
(* parse), "nan" (an empty cell, read by read_csv as NaN).  A time cell is *)
(* [kind, parts, ts]: "str" (the text, already cut at ":" into parts),     *)
(* "nan" (an empty cell) or "ts" (a resolved datetime, ts = <<year, month, *)
(* day, hour, minute, second, microsecond>>).  A dewpoint cell is          *)
(* [kind, val]: "nan", or "num" with val = <<T, f>> standing for the value *)
(* metpy's dewpoint_from_relative_humidity returns for temperature T and   *)
(* humidity fraction f.                                                    *)
(*                                                                         *)
(* Units.  Relative humidity is held in units of 0.0001 percent and the    *)
(* humidity fraction in units of 0.0000001, so that 1e-4, 100.0 and the     *)
(* product rh * 0.01 are integers.                                         *)
(***************************************************************************)
EXTENDS Integers, Sequences, FiniteSets, TLC

VARIABLES
    sonde_dict,   \* get_sonde_anl_data: the manifest, a sequence of [st_no, sonde_no, launch_time]
    st_idx,       \* get_sonde_anl_data: how many keys of sonde_dict the for loop has taken
    fpaths,       \* get_sonde_anl_data: len(fpaths), the number of files glob matched
    fi,           \* get_sonde_anl_data: the file loop's i
    written,      \* the output directory: output name -> number of to_csv calls on it
    ret,          \* get_sonde_anl_data's return value ("unset" while it runs)
    pc,           \* the statement about to run
    sonde_no,     \* data_qc's parameter
    launch_time,  \* data_qc's parameter
    raw,          \* the records read_csv delivered for this call
    df,           \* data_qc's df: [none, rows]
    qi,           \* data_qc's loop variable i
    qn,           \* len(df) as range() evaluated it when the loop started
    filtered,     \* history: df as the filter loop left it (columns renamed)
    casted,       \* history: df as dropna left it
    exc           \* the exception that left data_qc, "none" if none

vars == <<sonde_dict, st_idx, fpaths, fi, written, ret, pc, sonde_no,
          launch_time, raw, df, qi, qn, filtered, casted, exc>>

driver_vars == <<sonde_dict, st_idx, fpaths, fi, written, ret>>

-----------------------------------------------------------------------------
(* Bounds *)

MaxRows == 2

MaxFiles == 2

-----------------------------------------------------------------------------
(* Column lists, lines 14-103 *)

raw_columns ==
    << "OBS_Time", "DCnt", "ST", "RE", "SondeN", "FCnt", "AGC", "rcvFREQ",
       "WM", "WD", "WS", "Height", "Xdistanc", "Ydistanc", "GF", "HDP", "PDP",
       "GeodetLat", "GeodetLon", "V", "Press0", "Temp0", "Humi0", "FE", "FRT",
       "FTI", "FVH", "FVL", "FSP1", "FSP2", "FSP3", "FSP4", "N", "N1", "N2",
       "N3", "N4", "N5", "N6", "N7", "N8" >>

drop_columns ==
    << "DCnt", "ST", "RE", "SondeN", "FCnt", "AGC", "rcvFREQ", "WM", "GF",
       "HDP", "PDP", "V", "FE", "FRT", "FTI", "FVH", "FVL", "FSP1", "FSP2",
       "FSP3", "FSP4", "N", "N1", "N2", "N3", "N4", "N5", "N6", "N7", "N8" >>

new_columns ==
    << "Time", "WD", "WS", "Height", "Dx", "Dy", "Lat", "Lon", "Pressure",
       "Temperature", "RH" >>

cast_fields_without_WS ==
    << "WD", "Height", "Dx", "Dy", "Lat", "Lon", "Pressure", "Temperature",
       "RH" >>

cast_fields ==
    << "WD", "WS", "Height", "Dx", "Dy", "Lat", "Lon", "Pressure",
       "Temperature", "RH" >>

Range(s) == {s[k] : k \in 1..Len(s)}

-----------------------------------------------------------------------------
(* Cells *)

Num(v) == [kind |-> "num", val |-> v]
Junk == [kind |-> "junk", val |-> 0]
NaN == [kind |-> "nan", val |-> 0]
TimeStr(p) == [kind |-> "str", parts |-> p, ts |-> <<>>]
TimeNaN == [kind |-> "nan", parts |-> <<>>, ts |-> <<>>]
TimeStamp(t) == [kind |-> "ts", parts |-> <<>>, ts |-> t]
DewNaN == [kind |-> "nan", val |-> <<>>]
DewNum(t, f) == [kind |-> "num", val |-> <<t, f>>]

NoneDF == [none |-> TRUE, rows |-> <<>>]
Frame(rows) == [none |-> FALSE, rows |-> rows]

-----------------------------------------------------------------------------
(* pandas: reset_index, label lookup, drop by label *)

ResetIndex(rows) == [k \in 1..Len(rows) |-> [idx |-> k - 1, rec |-> rows[k].rec]]

Recs(rows) == [k \in 1..Len(rows) |-> rows[k].rec]

NoRow == [idx |-> -1, rec |-> <<>>]

\* The row at POSITION i of the frame as it is now (what .iloc[i] would read).
RowAtPosition(rows, i) == IF i + 1 \in 1..Len(rows) THEN rows[i + 1] ELSE NoRow

\* df[col].loc[i]: the row whose index LABEL is i; NoRow stands for KeyError.
Loc(rows, i) ==
    IF \E k \in 1..Len(rows) : rows[k].idx = i
    THEN rows[CHOOSE k \in 1..Len(rows) : rows[k].idx = i]
    ELSE NoRow

\* Dropping the row at POSITION i of the frame as it is now (nothing when the
\* frame has shrunk below i).
DropAtPosition(rows, i) ==
    IF i + 1 \in 1..Len(rows)
    THEN SubSeq(rows, 1, i) \o SubSeq(rows, i + 2, Len(rows))
    ELSE rows

\* df.drop(index=i, inplace=False): a new frame without the row labelled i.
DropIndex(rows, i) ==
    LET Keep(r) == r.idx # i
    IN SelectSeq(rows, Keep)

\* df[df["SondeN"] == sonde_no]; reset_index(drop=True), lines 131-132.
SelectSonde(records, sonde) ==
    LET Match(r) == r.SondeN = sonde
        asRows == [k \in 1..Len(records) |-> [idx |-> k - 1, rec |-> records[k]]]
    IN ResetIndex(SelectSeq(asRows, LAMBDA row : Match(row.rec)))

-----------------------------------------------------------------------------
(* The filter loop, lines 139-176 *)

RECURSIVE Bits(_)
Bits(n) == IF n < 2 THEN << ToString(n) >>
           ELSE Bits(n \div 2) \o << ToString(n % 2) >>

\* bin(st): "0b" and the binary digits, as a sequence of characters.
Bin(n) == IF n < 0 THEN << "-", "0", "b" >> \o Bits(-n)
          ELSE << "0", "b" >> \o Bits(n)

\* s[-k]
FromEnd(s, k) == s[Len(s) - k + 1]

\* The if/elif chain of lines 166-176: TRUE when the record is dropped.
DropsRecord(rec) ==
    LET st == Bin(rec.ST)
        gf == rec.GF
        num_gps == rec.N
    IN IF FromEnd(st, 1) # "1" THEN TRUE
       ELSE IF FromEnd(st, 3) # "1" THEN TRUE
       ELSE IF gf = 0 THEN TRUE
       ELSE IF num_gps < 4 THEN TRUE
       ELSE FALSE

\* One pass of the loop body for index i on the frame as it is now:
\* [rows, err], err = TRUE when .loc[i] raises KeyError.
FilterBody(rows, i) ==
    LET row == Loc(rows, i)
    IN IF row.idx = -1 THEN [rows |-> rows, err |-> TRUE]
       ELSE IF DropsRecord(row.rec)
            THEN [rows |-> DropIndex(rows, i), err |-> FALSE]
            ELSE [rows |-> rows, err |-> FALSE]

\* The whole loop, for i in range(n), from i on.
RECURSIVE FilterLoop(_, _, _)
FilterLoop(rows, i, n) ==
    IF i >= n THEN [rows |-> rows, err |-> FALSE]
    ELSE LET step == FilterBody(rows, i)
         IN IF step.err THEN step ELSE FilterLoop(step.rows, i + 1, n)

-----------------------------------------------------------------------------
(* Drop and rename columns, lines 179-181 *)

kept_columns ==
    LET Kept(c) == c \notin Range(drop_columns)
    IN SelectSeq(raw_columns, Kept)

PositionOf(c) == CHOOSE k \in 1..Len(new_columns) : new_columns[k] = c

RenameRec(rec) ==
    [c \in Range(new_columns) |-> rec[kept_columns[PositionOf(c)]]]

DropAndRename(rows) ==
    ResetIndex([k \in 1..Len(rows) |-> [idx |-> rows[k].idx, rec |-> RenameRec(rows[k].rec)]])

-----------------------------------------------------------------------------
(* Cast and null scan, lines 184-208 *)

\* pd.to_numeric(x, errors="coerce") on one cell.
ToNumeric(cell) == IF cell.kind = "num" THEN cell ELSE NaN

CastRec(rec) ==
    [c \in DOMAIN rec |-> IF c \in Range(cast_fields) THEN ToNumeric(rec[c]) ELSE rec[c]]

CastFrame(rows) ==
    [k \in 1..Len(rows) |-> [idx |-> rows[k].idx, rec |-> CastRec(rows[k].rec)]]

NullScanCastFieldsOnly == Range(cast_fields)

\* The columns dropna(how="any") looks at: every column of the frame.
NullScanColumns == Range(new_columns)

HasNaN(rec) == \E c \in NullScanColumns : rec[c].kind = "nan"

DropNa(rows) ==
    LET Keep(r) == ~HasNaN(r.rec)
    IN ResetIndex(SelectSeq(rows, Keep))

KeepEmptyFrame(rows) == Frame(rows)

\* "df is None if df has no records", lines 207-208.
EmptyToNone(rows) == IF Len(rows) = 0 THEN NoneDF ELSE Frame(rows)

-----------------------------------------------------------------------------
(* Dewpoint, lines 212-226 *)

\* p percent, in the model's unit of 0.0001 percent.
Percent(p) == p * 10000

\* 1e-4 (percent) of line 215, in units of 0.0001 percent.
RHThreshold == 1

\* 1.0 of line 219, in units of 0.0000001.
FractionOne == 10000000

\* rh * 0.01: one RH unit (0.0001 percent) is FractionOne / Percent(100)
\* fraction units.
Hundredth(rh) == rh * (FractionOne \div Percent(100))

AddDewpointColumn(rows) ==
    [k \in 1..Len(rows) |->
        [idx |-> rows[k].idx, rec |-> rows[k].rec @@ ("Dewpoint" :> DewNaN)]]

HumidityFractionUnclamped(rh) == Hundredth(rh)

\* rh = 1.0 if rh > 100.0 else rh * 0.01, line 219.
HumidityFraction(rh) ==
    IF rh > Percent(100) THEN FractionOne ELSE Hundredth(rh)

\* The body of the loop of lines 213-226 for one record.
DewpointOf(rec) ==
    LET rh == rec.RH.val
    IN IF rh <= RHThreshold THEN DewNaN
       ELSE DewNum(rec.Temperature.val, HumidityFraction(rh))

-----------------------------------------------------------------------------
(* Timestamp reconstruction, lines 228-252 *)

\* int(s) for the texts that occur; any other text raises ValueError.
IntTable ==
    ("00" :> 0) @@ ("05" :> 5) @@ ("10" :> 10) @@ ("23" :> 23) @@
    ("24" :> 24) @@ ("35" :> 35) @@ ("59" :> 59)

IsIntText(s) == s \in DOMAIN IntTable

\* datetime(year, month, day, *args): which args the constructor accepts.
DatetimeArgsOk(args) ==
    /\ Len(args) \in 1..4
    /\ args[1] \in 0..23
    /\ Len(args) >= 2 => args[2] \in 0..59
    /\ Len(args) >= 3 => args[3] \in 0..59
    /\ Len(args) >= 4 => args[4] \in 0..999999

ArgOr0(args, k) == IF k <= Len(args) THEN args[k] ELSE 0

MakeDatetime(year, month, day, args) ==
    << year, month, day, ArgOr0(args, 1), ArgOr0(args, 2), ArgOr0(args, 3),
       ArgOr0(args, 4) >>

\* split(":"), int() of every part, datetime(year, month, day, *parts):
\* [err, cell], err the exception raised or "none".
Resolve(cell, year, month, day) ==
    IF cell.kind # "str" THEN [err |-> "AttributeError", cell |-> cell]
    ELSE IF \E k \in 1..Len(cell.parts) : ~IsIntText(cell.parts[k])
    THEN [err |-> "ValueError", cell |-> cell]
    ELSE LET args == [k \in 1..Len(cell.parts) |-> IntTable[cell.parts[k]]]
         IN IF Len(args) > 4 THEN [err |-> "TypeError", cell |-> cell]
            ELSE IF ~DatetimeArgsOk(args) THEN [err |-> "ValueError", cell |-> cell]
            ELSE [err |-> "none",
                  cell |-> TimeStamp(MakeDatetime(year, month, day, args))]

\* Lines 229-238: the first record takes the launch date.
ResolveFirst(cell, launch) ==
    Resolve(cell, launch.year, launch.month, launch.day)

SecondsOfDay(ts) == ts[4] * 3600 + ts[5] * 60 + ts[6]

\* A reconstruction that detects midnight rollover (the code has none).
ResolveNextWithRollover(cell, previous) ==
    LET r == Resolve(cell, previous.ts[1], previous.ts[2], previous.ts[3])
    IN IF r.err = "none" /\ SecondsOfDay(r.cell.ts) < SecondsOfDay(previous.ts)
       THEN [err |-> "none",
             cell |-> TimeStamp([r.cell.ts EXCEPT ![3] = @ + 1])]
       ELSE r

\* Lines 242-252: record i takes year, month, day of record i-1's resolved Time.
ResolveNext(cell, previous) ==
    Resolve(cell, previous.ts[1], previous.ts[2], previous.ts[3])

SetTime(rows, i, cell) == [rows EXCEPT ![i + 1].rec.Time = cell]

-----------------------------------------------------------------------------
(* Inputs: the records a raw file may hold *)

\* A record that passes every check: status 5 (observing, levelled), a 2-D
\* fix, four satellites, ten numeric texts, RH 50 %, time "00:10:05".
Good ==
    [ OBS_Time |-> TimeStr(<< "00", "10", "05" >>), ST |-> 5, SondeN |-> "A1",
      WD |-> Num(270), WS |-> Num(12), Height |-> Num(1500),
      Xdistanc |-> Num(-30), Ydistanc |-> Num(40), GF |-> 1,
      GeodetLat |-> Num(35), GeodetLon |-> Num(139), Press0 |-> Num(850),
      Temp0 |-> Num(20), Humi0 |-> Num(Percent(50)), N |-> 4 ]

With(rec, field, v) == [rec EXCEPT ![field] = v]

CastRawColumns ==
    { "WD", "WS", "Height", "Xdistanc", "Ydistanc", "GeodetLat", "GeodetLon",
      "Press0", "Temp0", "Humi0" }

FilterRecords ==
    {With(Good, "ST", s) : s \in 0..7}
    \cup {With(Good, "GF", g) : g \in {0, 2}}
    \cup {With(Good, "N", n) : n \in {0, 3, 5}}
    \cup {With(Good, "SondeN", "B2")}

CastRecords ==
    {With(Good, c, Junk) : c \in CastRawColumns}
    \cup {With(Good, c, NaN) : c \in {"WS", "Humi0"}}
    \cup {With(Good, "OBS_Time", TimeNaN)}

DewRecords ==
    {With(Good, "Humi0", Num(h)) :
        h \in {0, RHThreshold, RHThreshold + 1, Percent(100), Percent(150)}}
    \cup {With(With(Good, "Temp0", Num(-5)), "Humi0", Num(h)) :
        h \in {Percent(50), Percent(150)}}

TimeTexts ==
    { << "00", "10", "35" >>, << "23", "59", "59" >>, << "00", "00", "00" >>,
      << "24", "00", "00" >>, << "00", "xx", "05" >>, << "10", "35" >> }

TimeRecords == {With(Good, "OBS_Time", TimeStr(t)) : t \in TimeTexts}

MixedRecords ==
    { With(With(Good, "WS", Junk), "OBS_Time", TimeStr(<< "00", "xx", "05" >>)),
      With(With(Good, "GF", 0), "OBS_Time", TimeNaN),
      With(With(Good, "N", 3), "WS", Junk) }

\* The records of the single-sounding specification.
QCRecords ==
    FilterRecords \cup CastRecords \cup DewRecords \cup TimeRecords
    \cup MixedRecords

\* The records of the batch specification.
DriverRecords ==
    { Good,
      With(Good, "SondeN", "B2"),
      With(Good, "GF", 0),
      With(Good, "WS", Junk),
      With(Good, "OBS_Time", TimeNaN),
      With(Good, "OBS_Time", TimeStr(<< "00", "10", "35" >>)),
      With(Good, "OBS_Time", TimeStr(<< "00", "xx", "05" >>)) }

FilesOver(records) == UNION {[1..n -> records] : n \in 0..MaxRows}

LaunchTimes ==
    { [year |-> 2024, month |-> 1, day |-> 1, hour |-> 0, minute |-> 0],
      [year |-> 2024, month |-> 7, day |-> 15, hour |-> 23, minute |-> 50] }

\* The field book: station number -> [sonde number, launch time].
FieldBook ==
    { [st_no |-> "001", sonde_no |-> "A1",
       launch_time |-> [year |-> 2024, month |-> 1, day |-> 1, hour |-> 0, minute |-> 0]],
      [st_no |-> "002", sonde_no |-> "B2",
       launch_time |-> [year |-> 2024, month |-> 7, day |-> 15, hour |-> 23, minute |-> 50]] }

\* The manifests: the ordered selections of distinct stations of the field book.
SondeDicts ==
    { d \in UNION {[1..n -> FieldBook] : n \in 0..Cardinality(FieldBook)} :
        \A a, b \in 1..Len(d) : a # b => d[a].st_no # d[b].st_no }

-----------------------------------------------------------------------------
(* data_qc, lines 126-257 *)

Raise(e) ==
    /\ exc' = e
    /\ pc' = "raised"
    /\ UNCHANGED <<df, qi, qn>>

\* Lines 128-137: select the sonde's records; none -> df = None.
SelectTarget ==
    /\ pc = "select"
    /\ LET m == SelectSonde(raw, sonde_no)
       IN IF Len(m) = 0
          THEN /\ df' = NoneDF
               /\ pc' = "qc_return"
               /\ UNCHANGED <<qi, qn>>
          ELSE /\ df' = Frame(m)
               /\ pc' = "filter"
               /\ qi' = 0
               /\ qn' = Len(m)
    /\ UNCHANGED <<driver_vars, sonde_no, launch_time, raw, filtered, casted, exc>>

\* Lines 139-176: one iteration of the filter loop.
FilterStep ==
    /\ pc = "filter"
    /\ qi < qn
    /\ LET step == FilterBody(df.rows, qi)
       IN IF step.err
          THEN Raise("KeyError")
          ELSE /\ df' = Frame(step.rows)
               /\ qi' = qi + 1
               /\ UNCHANGED <<pc, qn, exc>>
    /\ UNCHANGED <<driver_vars, sonde_no, launch_time, raw, filtered, casted>>

\* Lines 179-181: drop the unused columns, reset the index, rename.
DropColumns ==
    /\ pc = "filter"
    /\ qi = qn
    /\ df' = Frame(DropAndRename(df.rows))
    /\ filtered' = df'.rows
    /\ pc' = "cast"
    /\ UNCHANGED <<driver_vars, sonde_no, launch_time, raw, qi, qn, casted, exc>>

\* Lines 184-212: cast, dropna, reset the index; empty -> df = None, else
\* add the Dewpoint column.
CastAndDropNa ==
    /\ pc = "cast"
    /\ LET rows == DropNa(CastFrame(df.rows))
           d == EmptyToNone(rows)
       IN /\ casted' = rows
          /\ IF d.none
             THEN /\ df' = d
                  /\ pc' = "qc_return"
                  /\ UNCHANGED qi
             ELSE /\ df' = Frame(AddDewpointColumn(d.rows))
                  /\ pc' = "dewpoint"
                  /\ qi' = 0
    /\ UNCHANGED <<driver_vars, sonde_no, launch_time, raw, qn, filtered, exc>>

\* Lines 213-226: one iteration of the dewpoint loop.
DewpointStep ==
    /\ pc = "dewpoint"
    /\ qi < Len(df.rows)
    /\ df' = Frame([df.rows EXCEPT ![qi + 1].rec.Dewpoint = DewpointOf(df.rows[qi + 1].rec)])
    /\ qi' = qi + 1
    /\ UNCHANGED <<driver_vars, sonde_no, launch_time, raw, pc, qn, filtered, casted, exc>>

\* Lines 229-238: the first record's time; df.loc[0, "Time"] on an empty
\* frame raises KeyError.
TimeFirst ==
    /\ pc = "dewpoint"
    /\ qi = Len(df.rows)
    /\ IF Len(df.rows) = 0
       THEN Raise("KeyError")
       ELSE LET r == ResolveFirst(df.rows[1].rec.Time, launch_time)
            IN IF r.err # "none"
               THEN Raise(r.err)
               ELSE /\ df' = Frame(SetTime(df.rows, 0, r.cell))
                    /\ pc' = "time_loop"
                    /\ qi' = 1
                    /\ UNCHANGED <<qn, exc>>
    /\ UNCHANGED <<driver_vars, sonde_no, launch_time, raw, filtered, casted>>

\* Lines 241-252: one iteration of the time loop.
TimeStep ==
    /\ pc = "time_loop"
    /\ qi < Len(df.rows)
    /\ LET r == ResolveNext(df.rows[qi + 1].rec.Time, df.rows[qi].rec.Time)
       IN IF r.err # "none"
          THEN Raise(r.err)
          ELSE /\ df' = Frame(SetTime(df.rows, qi, r.cell))
               /\ qi' = qi + 1
               /\ UNCHANGED <<pc, qn, exc>>
    /\ UNCHANGED <<driver_vars, sonde_no, launch_time, raw, filtered, casted>>

\* Line 257: return df.
TimeDone ==
    /\ pc = "time_loop"
    /\ qi = Len(df.rows)
    /\ pc' = "qc_return"
    /\ UNCHANGED <<driver_vars, sonde_no, launch_time, raw, df, qi, qn, filtered, casted, exc>>

NextQC ==
    \/ SelectTarget
    \/ FilterStep
    \/ DropColumns
    \/ CastAndDropNa
    \/ DewpointStep
    \/ TimeFirst
    \/ TimeStep
    \/ TimeDone

\* One call of data_qc on any file over QCRecords, for sonde "A1".
InitQC ==
    /\ sonde_dict = << >>
    /\ st_idx = 0
    /\ fpaths = 0
    /\ fi = 0
    /\ written = [x \in {} |-> 0]
    /\ ret = "unset"
    /\ pc = "select"
    /\ sonde_no = "A1"
    /\ launch_time \in LaunchTimes
    /\ raw \in FilesOver(QCRecords)
    /\ df = NoneDF
    /\ qi = 0
    /\ qn = 0
    /\ filtered = << >>
    /\ casted = << >>
    /\ exc = "none"

SpecQC == InitQC /\ [][NextQC]_vars

-----------------------------------------------------------------------------
(* get_sonde_anl_data, lines 282-308 *)

qc_locals == <<sonde_no, launch_time, raw, df, qi, qn, filtered, casted>>

\* data_qc's locals once the call is over and its result consumed.
ClearCall ==
    /\ raw' = << >>
    /\ df' = NoneDF
    /\ qi' = 0
    /\ qn' = 0
    /\ filtered' = << >>
    /\ casted' = << >>

\* Lines 303-305: the output's name.
OutputName(st_no, nfiles, i) ==
    IF nfiles = 1 THEN "sonde_" \o st_no \o ".csv"
    ELSE "sonde_" \o st_no \o "_" \o ToString(i + 1) \o ".csv"

\* df.to_csv(path): one more write of that name.
ToCsvAt(files, name) ==
    IF name \in DOMAIN files THEN [files EXCEPT ![name] = @ + 1]
    ELSE files @@ (name :> 1)

\* Lines 282-290: take the next station; glob matches n files; none -> continue.
ForStation ==
    /\ pc = "for_station"
    /\ st_idx < Len(sonde_dict)
    /\ st_idx' = st_idx + 1
    /\ sonde_no' = sonde_dict[st_idx + 1].sonde_no
    /\ launch_time' = sonde_dict[st_idx + 1].launch_time
    /\ \E n \in 0..MaxFiles :
          /\ fpaths' = n
          /\ pc' = IF n = 0 THEN "for_station" ELSE "for_file"
    /\ fi' = 0
    /\ UNCHANGED <<sonde_dict, written, ret, raw, df, qi, qn, filtered, casted, exc>>

\* The station loop is exhausted: the function ends without a return
\* statement, which returns None.
ForStationEnd ==
    /\ pc = "for_station"
    /\ st_idx = Len(sonde_dict)
    /\ pc' = "done"
    /\ ret' = "None"
    /\ UNCHANGED <<sonde_dict, st_idx, fpaths, fi, written, qc_locals, exc>>

\* Lines 294-297 and 127: call data_qc; read_csv delivers the file's records.
ReadCsv ==
    /\ pc = "for_file"
    /\ fi < fpaths
    /\ \E f \in FilesOver(DriverRecords) : raw' = f
    /\ pc' = "select"
    /\ df' = NoneDF
    /\ UNCHANGED <<driver_vars, sonde_no, launch_time, qi, qn, filtered, casted, exc>>

\* Lines 127 and 254-255: read_csv raises FileNotFoundError; df = None.
ReadCsvNotFound ==
    /\ pc = "for_file"
    /\ fi < fpaths
    /\ df' = NoneDF
    /\ pc' = "qc_return"
    /\ UNCHANGED <<driver_vars, sonde_no, launch_time, raw, qi, qn, filtered, casted, exc>>

\* The file loop is exhausted: back to the station loop.
ForFileEnd ==
    /\ pc = "for_file"
    /\ fi = fpaths
    /\ pc' = "for_station"
    /\ UNCHANGED <<driver_vars, qc_locals, exc>>

\* Lines 299-301: data_qc returned None; continue.
SkipNone ==
    /\ pc = "qc_return"
    /\ df.none
    /\ fi' = fi + 1
    /\ pc' = "for_file"
    /\ ClearCall
    /\ UNCHANGED <<sonde_dict, st_idx, fpaths, written, ret, sonde_no, launch_time, exc>>

\* Lines 302-308: name the output and write it.
ToCsv ==
    /\ pc = "qc_return"
    /\ ~df.none
    /\ written' = ToCsvAt(written, OutputName(sonde_dict[st_idx].st_no, fpaths, fi))
    /\ fi' = fi + 1
    /\ pc' = "for_file"
    /\ ClearCall
    /\ UNCHANGED <<sonde_dict, st_idx, fpaths, ret, sonde_no, launch_time, exc>>

Init ==
    /\ sonde_dict \in SondeDicts
    /\ st_idx = 0
    /\ fpaths = 0
    /\ fi = 0
    /\ written = [x \in {} |-> 0]
    /\ ret = "unset"
    /\ pc = "for_station"
    /\ sonde_no = ""
    /\ launch_time = [year |-> 0, month |-> 0, day |-> 0, hour |-> 0, minute |-> 0]
    /\ raw = << >>
    /\ df = NoneDF
    /\ qi = 0
    /\ qn = 0
    /\ filtered = << >>
    /\ casted = << >>
    /\ exc = "none"

Next ==
    \/ ForStation
    \/ ForStationEnd
    \/ ReadCsv
    \/ ReadCsvNotFound
    \/ ForFileEnd
    \/ SkipNone
    \/ ToCsv
    \/ SelectTarget
    \/ FilterStep
    \/ DropColumns
    \/ CastAndDropNa
    \/ DewpointStep
    \/ TimeFirst
    \/ TimeStep
    \/ TimeDone

Spec == Init /\ [][Next]_vars

-----------------------------------------------------------------------------
(* Properties *)

StatusBit(st, b) == (st \div (2 ^ b)) % 2

\* The four conditions of RecordFilter, by bit arithmetic on the record's
\* own values.
PassesQC(rec) ==
    /\ StatusBit(rec.ST, 0) = 1
    /\ StatusBit(rec.ST, 2) = 1
    /\ rec.GF # 0
    /\ rec.N >= 4

IsTarget(rec) == rec.SondeN = sonde_no

\* The target sonde's records with their positions as labels.
TargetRows ==
    LET m == SelectSeq(raw, IsTarget)
    IN [k \in 1..Len(m) |-> [idx |-> k - 1, rec |-> m[k]]]

FilterFinished == pc = "filter" /\ qi = qn

\* C1: while the filter loop runs, the frame holds exactly the target
\* sonde's records that are not yet visited or that pass the four conditions
\* on their own original values, in input order and under their original
\* labels, and no lookup fails; so when the loop ends the frame is exactly
\* the passing records of the target sonde, in input order.
C1_RecordFilterKeepsExactlyPassing ==
    /\ exc # "KeyError"
    /\ pc = "filter" =>
          df.rows = SelectSeq(TargetRows,
                              LAMBDA row : row.idx >= qi \/ PassesQC(row.rec))
    /\ FilterFinished =>
          Recs(df.rows) = SelectSeq(raw, LAMBDA r : IsTarget(r) /\ PassesQC(r))

\* C1 witness: satellite count 3 was dropped and the later record with
\* count 4 kept, after a row was removed while scanning.
C1_Witness ==
    /\ FilterFinished
    /\ raw = << With(Good, "N", 3), Good >>
    /\ Recs(df.rows) = << Good >>

\* C9: running the selection and the filter loop again on the loop's own
\* output removes nothing and keeps the order.
C9_FilterIdempotent ==
    FilterFinished =>
        LET out == Recs(df.rows)
            start == SelectSonde(out, sonde_no)
            again == FilterLoop(start, 0, Len(start))
        IN /\ ~again.err
           /\ Recs(again.rows) = out

\* C9 witness: the first pass removed a record and kept another.
C9_Witness ==
    /\ FilterFinished
    /\ Len(df.rows) >= 1
    /\ Len(df.rows) < Len(raw)

TenNumeric ==
    { "WD", "WS", "Height", "Dx", "Dy", "Lat", "Lon", "Pressure",
      "Temperature", "RH" }

AllTenParse(rec) == \A c \in TenNumeric : rec[c].kind = "num"

\* The cast and null scan of this call are over.
AfterCast == pc \in {"dewpoint", "time_loop", "qc_return", "raised"}

\* C3 as stated: a filtered record is dropped if and only if one of its ten
\* numeric fields does not parse; the others are kept in order, unaltered.
C3_DroppedIffNumericUnparseable ==
    AfterCast => Recs(casted) = SelectSeq(Recs(filtered), AllTenParse)

\* A time text of the form HH:MM:SS with hour, minute and second in range.
WellFormedTime(cell) ==
    /\ cell.kind = "str"
    /\ Len(cell.parts) = 3
    /\ \A k \in 1..3 : IsIntText(cell.parts[k])
    /\ IntTable[cell.parts[1]] \in 0..23
    /\ IntTable[cell.parts[2]] \in 0..59
    /\ IntTable[cell.parts[3]] \in 0..59

\* C3 amended: a filtered record is dropped if and only if one of its ten
\* numeric fields does not parse or its time field is missing; the others
\* are kept in order with the time field unaltered; an unparseable numeric
\* value raises nothing (whatever is raised comes from the time text of a
\* record that was kept).
C3_DroppedIffUnparseableOrTimeMissing ==
    /\ AfterCast =>
          Recs(casted) =
              SelectSeq(Recs(filtered),
                        LAMBDA r : AllTenParse(r) /\ r.Time.kind # "nan")
    /\ exc # "none" =>
          \E k \in 1..Len(casted) : ~WellFormedTime(casted[k].rec.Time)

\* C3 witness: of two filtered records the one with unparseable wind speed
\* is gone and the other is kept.
C3_Witness ==
    /\ pc = "dewpoint"
    /\ Len(filtered) = 2
    /\ filtered[1].rec.WS.kind = "junk"
    /\ Recs(casted) = << filtered[2].rec >>

\* C10: every record that reaches the dewpoint and time stages has a time
\* field that is present, and time parsing never meets a missing time.
C10_TimePresentAtReconstruction ==
    /\ pc \in {"dewpoint", "time_loop"} =>
          \A k \in 1..Len(df.rows) : df.rows[k].rec.Time.kind # "nan"
    /\ exc # "AttributeError"

\* C10 witness: a record with all ten numeric fields valid and a missing
\* time passed the filter and was removed before the time stage.
C10_Witness ==
    /\ pc = "dewpoint"
    /\ \E k \in 1..Len(filtered) :
          /\ filtered[k].rec.Time.kind = "nan"
          /\ AllTenParse(filtered[k].rec)
    /\ Len(df.rows) = 1

\* The dewpoint loop has handled the first qi records.
DewpointDone(k) == pc = "dewpoint" /\ k <= qi

\* C4: a handled record's dewpoint is missing exactly when its relative
\* humidity is at most 0.0001 percent; otherwise it is the dewpoint of its
\* temperature and the fraction 1.0 (humidity above 100 percent) or
\* humidity / 100; so at equal temperature 150 percent and 100 percent give
\* the same dewpoint.  The stage drops no record and changes no other field.
C4_DewpointPolicy ==
    pc = "dewpoint" =>
        /\ Len(df.rows) = Len(casted)
        /\ \A k \in 1..Len(df.rows) :
              LET rec == df.rows[k].rec
                  rh == rec.RH.val
              IN /\ \A c \in Range(new_columns) : rec[c] = casted[k].rec[c]
                 /\ DewpointDone(k) =>
                       /\ rec.Dewpoint.kind = "nan" <=> rh <= 1
                       /\ rh > 1 =>
                             rec.Dewpoint.val =
                                 << rec.Temperature.val,
                                    IF rh > 1000000 THEN 10000000 ELSE rh * 10 >>
        /\ \A j, k \in 1..Len(df.rows) :
              LET a == df.rows[j].rec
                  b == df.rows[k].rec
              IN (/\ DewpointDone(j)
                  /\ DewpointDone(k)
                  /\ a.RH.val = 1500000
                  /\ b.RH.val = 1000000
                  /\ a.Temperature.val = b.Temperature.val)
                 => a.Dewpoint = b.Dewpoint

\* C4 witness: both records handled, one at 150 percent and one at 100
\* percent humidity, same temperature.
C4_Witness ==
    /\ pc = "dewpoint"
    /\ qi = 2
    /\ Len(df.rows) = 2
    /\ df.rows[1].rec.RH.val = 1500000
    /\ df.rows[2].rec.RH.val = 1000000
    /\ df.rows[1].rec.Temperature.val = df.rows[2].rec.Temperature.val
    /\ df.rows[1].rec.Dewpoint.kind = "num"

\* The time-of-day a time text parses to: hour, minute, second, microsecond.
TimeOfDay(cell) ==
    LET n == Len(cell.parts)
    IN [k \in 1..4 |-> IF k <= n THEN IntTable[cell.parts[k]] ELSE 0]

LaunchDate == << launch_time.year, launch_time.month, launch_time.day >>

\* How many leading records carry a resolved timestamp.
ResolvedCount ==
    IF pc = "time_loop" THEN qi
    ELSE IF pc = "qc_return" /\ ~df.none THEN Len(df.rows)
    ELSE 0

\* C2: record 0's timestamp is the launch date with its own time-of-day;
\* record i's is the date of record i-1's resolved timestamp with its own
\* time-of-day; the date is never advanced, so every resolved record carries
\* the launch date.
C2_TimeReconstruction ==
    \A k \in 1..ResolvedCount :
        LET t == df.rows[k].rec.Time
        IN /\ t.kind = "ts"
           /\ SubSeq(t.ts, 4, 7) = TimeOfDay(casted[k].rec.Time)
           /\ SubSeq(t.ts, 1, 3) =
                 (IF k = 1 THEN LaunchDate
                  ELSE SubSeq(df.rows[k - 1].rec.Time.ts, 1, 3))
           /\ SubSeq(t.ts, 1, 3) = LaunchDate

\* C2 witness: data_qc returned two records, the second with a smaller
\* time-of-day than the first ("23:59:59" then "00:00:00").
C2_Witness ==
    /\ pc = "qc_return"
    /\ ~df.none
    /\ Len(df.rows) = 2
    /\ casted[1].rec.Time.parts = << "23", "59", "59" >>
    /\ casted[2].rec.Time.parts = << "00", "00", "00" >>
    /\ launch_time.day = 15

\* The call of data_qc is over: it returned or an exception left it.
CallOver == pc \in {"qc_return", "raised"}

\* No record of the file is the target sonde's.
NoMatch == SelectSeq(raw, IsTarget) = << >>

\* C5, the result: when the call is over and no record matched, or none
\* survived the filter, or none survived the cast, data_qc returned None and
\* raised nothing; and what it returns is never an empty record sequence.
C5_EmptyIsNone ==
    /\ (CallOver /\ (NoMatch \/ filtered = << >> \/ casted = << >>)) =>
          /\ pc = "qc_return"
          /\ df.none
          /\ exc = "none"
    /\ (pc = "qc_return" /\ ~df.none) => Len(df.rows) > 0

\* C5, the output: the step that consumes a None result writes nothing.
C5_NoneWritesNothing ==
    (pc = "qc_return" /\ df.none) => written' = written

\* C5: empty soundings collapse to None, never to an empty sequence or an
\* exception, and a None result leaves the output directory as it was.
C5_EmptyPropagation == []C5_EmptyIsNone /\ [][C5_NoneWritesNothing]_vars

\* C5 witness: records passed the filter, none survived the cast, and
\* data_qc returned None.
C5_Witness ==
    /\ pc = "qc_return"
    /\ df.none
    /\ Len(filtered) > 0
    /\ casted = << >>

\* A record that reaches the time stage has a malformed time text.
MalformedTimeReached ==
    \E k \in 1..Len(casted) : ~WellFormedTime(casted[k].rec.Time)

\* C6 as stated: when a record with a malformed time text reaches the time
\* stage, data_qc returns None for that sounding and no exception leaves it.
C6_MalformedTimeYieldsNoData ==
    (CallOver /\ MalformedTimeReached) =>
        /\ pc = "qc_return"
        /\ df.none
        /\ exc = "none"

\* The batch is over: the function returned or an exception left it.
BatchOver == pc \in {"done", "raised"}

\* C7 as stated: when the batch is over the station loop has reached every
\* station of sonde_dict, whatever happened to earlier ones, and every output
\* written was written exactly once.
C7_EveryStationReached ==
    /\ BatchOver => st_idx = Len(sonde_dict)
    /\ \A name \in DOMAIN written : written[name] = 1

\* C8 as stated: get_sonde_anl_data returns a boolean.
C8_ReturnsBoolean == pc = "done" => ret \in {"True", "False"}

=============================================================================
